---- MODULE Spec2Model ----
(***************************************************************************)
(* A model of color-sucker's batch pipeline (src/index.js, lines 1-413)    *)
(* and of its palette worker (src/paletteWorker.js).                       *)
(*                                                                         *)
(* processImages enumerates a directory, submits one task per candidate    *)
(* image to a PQueue of concurrency config.maxThreads, and writes the JSON *)
(* report once Promise.all of the tasks has resolved.  A task is an async  *)
(* function: every `await` is a suspension point, and the code between two *)
(* awaits runs atomically on the main thread.  Workers run in parallel to  *)
(* the main thread and talk to it through messages and events.             *)
(*                                                                         *)
(* Spec is the command-line run; ApiSpec is extractPalette and the worker  *)
(* driven by a caller of their own; UnitSpec applies the frame request,    *)
(* the compositor and the file filter to arguments drawn from small sets.  *)
(*                                                                         *)
(* File names are sequences of tokens (<<"a", ".gif">> is a.gif), so that  *)
(* the extension tests and path.basename are computed, not assumed.        *)
(***************************************************************************)
EXTENDS Integers, Sequences, FiniteSets, TLC

\* ------------------------------------------------------------------ bounds
MaxFiles   == 2    \* entries readdir returns at most
MaxFrames  == 1    \* frames gifFrames returns at most
MaxThreads == 2    \* config.maxThreads ranges over 1..MaxThreads
MaxPaletteSize == 2    \* a palette size asked for ranges over 0..MaxPaletteSize
MaxGifLength == 3  \* frames of a GIF given to the sampler on its own
MaxImages  == 3    \* frame images given to the compositor on its own
MaxSide    == 2    \* a frame image's width and height range over 1..MaxSide

\* ------------------------------------------------------- program constants
DefaultPaletteSize == 5    \* options.paletteSize || 5
ConfigPaletteSize == 5     \* paletteSize of sucker.config.js

\* --------------------------------------------------------------- file names
\* String.prototype.toLowerCase on an extension token.
ToLowerCase(tok) ==
  CASE tok \in {".GIF", ".Gif"} -> ".gif"
    [] tok \in {".PNG", ".Png"} -> ".png"
    [] tok \in {".JPG", ".Jpg"} -> ".jpg"
    [] tok \in {".JPEG", ".Jpeg"} -> ".jpeg"
    [] tok \in {"_FRAME", "_Frame"} -> "_frame"
    [] OTHER -> tok

Last(s) == s[Len(s)]
Front(s) == SubSeq(s, 1, Len(s) - 1)

\* imageFile.toLowerCase().endsWith('.gif')
EndsWithGif(name) == Len(name) > 0 /\ ToLowerCase(Last(name)) = ".gif"

\* path.basename(imageFile, '.gif'): the suffix is stripped only when it is
\* exactly '.gif' (the comparison is case-sensitive) and is not the whole name.
Basename(name) ==
  IF Len(name) > 1 /\ Last(name) = ".gif" THEN Front(name) ELSE name

DigitTokens == <<"0", "1", "2", "3", "4", "5", "6", "7", "8", "9">>
Digit(i) == DigitTokens[i + 1]

\* `${path.basename(imageFile, '.gif')}_frame_${i}.png` in temp_frames
FramePath(name, i) == Basename(name) \o <<"_frame", "_", Digit(i), ".png">>
\* `${path.basename(imageFile, '.gif')}_combined.png` in temp_frames
CombinedPath(name) == Basename(name) \o <<"_combined", ".png">>

\* file.match(/_frame\d*\.png$/i)
IsDigitToken(tok) == \E k \in 1..Len(DigitTokens) : DigitTokens[k] = tok
RECURSIVE StripDigits(_)
StripDigits(s) ==
  IF Len(s) > 0 /\ IsDigitToken(Last(s)) THEN StripDigits(Front(s)) ELSE s
MatchesFramePattern(name) ==
  /\ Len(name) >= 2
  /\ ToLowerCase(Last(name)) = ".png"
  /\ LET rest == StripDigits(Front(name))
     IN  Len(rest) > 0 /\ ToLowerCase(Last(rest)) = "_frame"

MatchesImageExtensionExactCase(name) ==
  Len(name) > 0 /\ Last(name) \in {".jpg", ".jpeg", ".png", ".gif"}
\* file.match(/\.(jpg|jpeg|png|gif)$/i)
MatchesImageExtension(name) ==
  Len(name) > 0 /\ ToLowerCase(Last(name)) \in {".jpg", ".jpeg", ".png", ".gif"}

\* the predicate of files.filter(...)
IsCandidate(name) == ~MatchesFramePattern(name) /\ MatchesImageExtension(name)

RECURSIVE FilterCandidates(_)
FilterCandidates(fs) ==
  IF fs = <<>> THEN <<>>
  ELSE IF IsCandidate(Head(fs)) THEN <<Head(fs)>> \o FilterCandidates(Tail(fs))
       ELSE FilterCandidates(Tail(fs))

\* The directory entries the model draws the listing from.
DirNames == { <<"a", ".gif">>, <<"b", ".GIF">>, <<"c", ".png">>, <<"n", ".txt">> }

RECURSIVE SeqsUpTo(_, _)
SeqsUpTo(S, n) ==
  IF n = 0 THEN { <<>> }
  ELSE LET shorter == SeqsUpTo(S, n - 1)
       IN  shorter \cup { Append(s, x) : s \in shorter, x \in S }

IsInjective(s) == \A i, j \in 1..Len(s) : s[i] = s[j] => i = j

\* readdir of a directory lists every entry once.
Listings == { s \in SeqsUpTo(DirNames, MaxFiles) : IsInjective(s) }
\* A listing that repeats an entry (the case the processedGifs guard is for).
ListingsWithRepeats == SeqsUpTo(DirNames, MaxFiles)

TaskIds == 1..MaxFiles

\* the path handed to extraction: path.join(imagesFolder, imageFile) or a
\* file of temp_frames
ImagePathOf(name) == [dir |-> "images", file |-> name]
TempPathOf(file) == [dir |-> "temp", file |-> file]

\* What a caller of extractPalette may give as imagePath besides a file's
\* path: nothing, the empty string, or a value that is not a string.
UndefinedPath == [dir |-> "undefined", file |-> <<>>]
EmptyPath == [dir |-> "", file |-> <<>>]
ObjectPath == [dir |-> "object", file |-> <<>>]
\* the bytes of an imageBuffer, as the worker's image source
BufferSource == [dir |-> "buffer", file |-> <<>>]
\* !!value, for an imagePath
Truthy(path) == path.dir \notin {"undefined", ""}
\* typeof value === 'string'
IsString(path) == path.dir \notin {"undefined", "object"}

\* The opaque extraction capability: an ordered color list, cut to the size
\* asked for.  It is a function of the file read.
ColorRank(path) ==
  CASE path.dir = "temp" -> <<"#000000", "#ffffff">>
    [] path.dir = "buffer" -> <<"#00ff00", "#0000ff", "#ffff00">>
    [] OTHER -> <<"#ff0000">>
Min(a, b) == IF a <= b THEN a ELSE b
ProcessImageData(path, k) ==
  SubSeq(ColorRank(path), 1, Min(k, Len(ColorRank(path))))

VARIABLES
  mainPc,          \* where processImages stands
  maxThreads,      \* config.maxThreads
  files,           \* what readdir returns
  imageFiles,      \* files.filter(...)
  queue,           \* PQueue: tasks added and not yet started (task ids, FIFO)
  pending,         \* PQueue: _pendingCount
  pc,              \* each task's position
  processedGifs,   \* the Set of line 115
  results,         \* the array of line 116
  report,          \* the JSON file written at line 235 (<<"none">> before)
  tempDirExists,   \* whether <output>/temp_frames exists
  tempFiles,       \* the files of <output>/temp_frames
  frames,          \* per task: frames.length of line 141
  framePaths,      \* per task: the array of line 147
  processedImagePath, \* per task: the variable of line 132
  promise,         \* per task: the promise extractPalette returned
  worker,          \* per task: its Worker's life cycle
  inbox,           \* per task: requests posted to the worker, not yet handled
  evq,             \* per task: messages and events from the worker, in order
  writes,          \* how many times the report file was written
  paletteSize,     \* config.paletteSize (0 when the configuration sets none)
  faults,          \* whether an operation that could succeed may fail
  hung,            \* the invocation whose worker may never answer (0: none)
  unit             \* a function of the program applied on its own: its
                   \* name, its argument and, once applied, its result

vars == <<mainPc, maxThreads, files, imageFiles, queue, pending, pc,
          processedGifs, results, report, tempDirExists, tempFiles, frames,
          framePaths, processedImagePath, promise, worker, inbox, evq, writes,
          paletteSize, faults, hung, unit>>

Finished == {"skipped", "done", "failed"}
Settled == {"resolved", "rejected"}

NoPromise == [state |-> "none", value |-> <<>>, error |-> ""]
Event(t) == [type |-> t, palette |-> <<>>, error |-> ""]
NoUnit == [fn |-> "none"]

NumTasks == Len(imageFiles)
Tasks == 1..NumTasks
IsGifTask(i) == EndsWithGif(imageFiles[i])

\* ------------------------------------------------------------------- Init
\* Nothing has run yet.
AtStart ==
  /\ mainPc = "start"
  /\ imageFiles = <<>>
  /\ queue = <<>>
  /\ pending = 0
  /\ pc = [i \in TaskIds |-> "none"]
  /\ processedGifs = {}
  /\ results = <<>>
  /\ report = <<>>
  /\ tempDirExists = FALSE
  /\ tempFiles = {}
  /\ frames = [i \in TaskIds |-> 0]
  /\ framePaths = [i \in TaskIds |-> <<>>]
  /\ processedImagePath = [i \in TaskIds |-> ImagePathOf(<<>>)]
  /\ promise = [i \in TaskIds |-> NoPromise]
  /\ worker = [i \in TaskIds |-> "none"]
  /\ inbox = [i \in TaskIds |-> <<>>]
  /\ evq = [i \in TaskIds |-> <<>>]
  /\ writes = 0

\* The command-line run: the configuration file's paletteSize, any listing.
InitWith(listings) ==
  /\ AtStart
  /\ maxThreads \in 1..MaxThreads
  /\ files \in listings
  /\ paletteSize = ConfigPaletteSize
  /\ faults = TRUE
  /\ hung = 0
  /\ unit = NoUnit

Init == InitWith(Listings)
InitRepeats == InitWith(ListingsWithRepeats)

taskVars == <<frames, framePaths, processedImagePath>>
fsVars == <<tempDirExists, tempFiles>>
workerVars == <<promise, worker, inbox, evq>>
fixedVars == <<paletteSize, faults, hung, unit>>
configVars == <<maxThreads, files, imageFiles, fixedVars>>
outVars == <<report, writes>>

\* --------------------------------------------------------------- the queue
\* p-queue: _doesConcurrentAllowAnother
AllowAnotherUnbounded == TRUE
DoesConcurrentAllowAnother == pending < maxThreads

CanStartWhenIdle == mainPc = "awaiting" /\ queue # <<>> /\ pending = 0
\* p-queue starts the head of its queue as soon as a slot is free, in the same
\* synchronous run as the add() or the _next() that freed it.
CanStart ==
  mainPc = "awaiting" /\ queue # <<>> /\ DoesConcurrentAllowAnother

\* A promise continuation (a microtask) runs before any further I/O callback.
ContinuationPending ==
  \E i \in TaskIds : pc[i] = "extract" /\ promise[i].state \in Settled

\* The event loop may run an I/O or message callback.
MainIdle == ~CanStart /\ ~ContinuationPending

\* p-queue: _next(), run when the task's promise has settled
NextKeepsSlot == pending' = pending
PQueueNext == pending' = pending - 1

\* ------------------------------------------------------------ a task's end
\* The catch of lines 227-229: the error is logged, the task ends normally.
TaskFailedRethrows(i) ==
  /\ pc' = [pc EXCEPT ![i] = "failed"]
  /\ PQueueNext
  /\ mainPc' = "error"
  /\ UNCHANGED results
TaskFailedMarksError(i) ==
  /\ pc' = [pc EXCEPT ![i] = "failed"]
  /\ PQueueNext
  /\ results' = Append(results, [imageName |-> imageFiles[i], colors |-> <<"error">>])
  /\ UNCHANGED mainPc
TaskFailed(i) ==
  /\ pc' = [pc EXCEPT ![i] = "failed"]
  /\ PQueueNext
  /\ UNCHANGED <<mainPc, results>>

\* --------------------------------------------------------- extractPalette
Resolve(p, v) ==
  IF p.state = "pending" THEN [state |-> "resolved", value |-> v, error |-> ""]
  ELSE p
RejectOverwriting(p, e) == [state |-> "rejected", value |-> <<>>, error |-> e]
Reject(p, e) ==
  IF p.state = "pending" THEN [state |-> "rejected", value |-> <<>>, error |-> e]
  ELSE p

NoInputError == "Either imagePath or imageBuffer must be provided"

\* the negation of line 31's test
HasInputAlways(options) == TRUE
HasInput(options) ==
  Truthy(options.imagePath) \/ options.imageBuffer # "undefined"

\* options.paletteSize || 5, line 75 (0 stands for a size that is not set)
PaletteSizeOrDefault(k) == IF k = 0 THEN DefaultPaletteSize ELSE k

\* the message of lines 72-76
RequestOf(options) ==
  [imagePath |-> options.imagePath,
   imageBuffer |-> options.imageBuffer,
   paletteSize |-> PaletteSizeOrDefault(options.paletteSize)]

\* extractPalette(options), lines 28-78: without an input the promise is
\* rejected at once (line 32); otherwise the worker is created, the listeners
\* are registered and the request is posted.
ExtractPalette(i, options) ==
  IF HasInput(options)
  THEN /\ promise' = [promise EXCEPT ![i] =
                        [state |-> "pending", value |-> <<>>, error |-> ""]]
       /\ worker' = [worker EXCEPT ![i] = "starting"]
       /\ inbox' = [inbox EXCEPT ![i] = <<RequestOf(options)>>]
       /\ UNCHANGED evq
  ELSE /\ promise' = [promise EXCEPT ![i] =
                        [state |-> "rejected", value |-> <<>>,
                         error |-> NoInputError]]
       /\ UNCHANGED <<worker, inbox, evq>>

\* extractPalette({ imagePath: processedImagePath, paletteSize:
\* config.paletteSize }), lines 198-201
CallExtractPalette(i, path) ==
  /\ processedImagePath' = [processedImagePath EXCEPT ![i] = path]
  /\ ExtractPalette(i, [imagePath |-> path, imageBuffer |-> "undefined",
                        paletteSize |-> paletteSize])

\* ------------------------------------------------------------ processImages
\* Lines 93-118: the output folder is made, the directory is read and
\* filtered, and every candidate is added to the queue (line 120-121).
Enumerate ==
  /\ mainPc = "start"
  /\ \/ /\ imageFiles' = FilterCandidates(files)
        /\ queue' = [k \in 1..Len(FilterCandidates(files)) |-> k]
        /\ pc' = [i \in TaskIds |->
                    IF i <= Len(FilterCandidates(files)) THEN "queued" ELSE "none"]
        /\ mainPc' = "awaiting"
     \/ \* mkdir or readdir fails: caught at line 245 (or by the caller)
        /\ faults
        /\ mainPc' = "error"
        /\ UNCHANGED <<imageFiles, queue, pc>>
  /\ UNCHANGED <<maxThreads, files, fixedVars, pending, processedGifs, results,
                 outVars, fsVars, taskVars, workerVars>>

MarkNothing(name) == processedGifs
\* processedGifs.add(imageFile), line 136
MarkProcessed(name) == processedGifs \cup {name}

DequeueLast(i) == i = Last(queue) /\ queue' = Front(queue)
\* p-queue: the task that waited longest is the one taken from the queue
Dequeue(i) == i = Head(queue) /\ queue' = Tail(queue)

\* The queue starts its head: lines 122-139 (an unseen GIF), 122-129 (a GIF
\* seen before) or 122-132 and 197-201 (a still), up to the first await.
Start(i) ==
  /\ CanStart
  /\ Dequeue(i)
  /\ LET name == imageFiles[i] IN
     IF EndsWithGif(name) /\ name \in processedGifs
     THEN /\ pc' = [pc EXCEPT ![i] = "skipped"]
          /\ UNCHANGED <<pending, processedGifs, taskVars, workerVars>>
     ELSE IF EndsWithGif(name)
     THEN /\ processedGifs' = MarkProcessed(name)
          /\ pc' = [pc EXCEPT ![i] = "mkdir"]
          /\ pending' = pending + 1
          /\ UNCHANGED <<taskVars, workerVars>>
     ELSE /\ CallExtractPalette(i, ImagePathOf(name))
          /\ pc' = [pc EXCEPT ![i] = "extract"]
          /\ pending' = pending + 1
          /\ UNCHANGED <<processedGifs, frames, framePaths>>
  /\ UNCHANGED <<mainPc, configVars, results, outVars, fsVars>>


\* ---------------------------------------------------------- the GIF branch
\* await mkdir(tempFramesDir, { recursive: true }) of line 139 returns, and
\* gifFrames is called (line 141).
MkdirDone(i) ==
  /\ MainIdle
  /\ pc[i] = "mkdir"
  /\ \/ /\ tempDirExists' = TRUE
        /\ pc' = [pc EXCEPT ![i] = "gifFrames"]
        /\ UNCHANGED <<pending, mainPc, results, tempFiles>>
     \/ /\ faults
        /\ TaskFailed(i)
        /\ UNCHANGED fsVars
  /\ UNCHANGED <<configVars, queue, processedGifs, outVars, taskVars, workerVars>>

\* gifFrames returns n frames (lines 141-145); the loop of line 148 opens the
\* first frame's write stream, or is skipped when there is no frame and
\* Promise.all of line 156 is awaited.
GifFramesDone(i) ==
  /\ MainIdle
  /\ pc[i] = "gifFrames"
  /\ \/ \E n \in (IF faults THEN 0 ELSE 1)..MaxFrames :
          /\ frames' = [frames EXCEPT ![i] = n]
          /\ pc' = [pc EXCEPT ![i] = IF n = 0 THEN "loadImage" ELSE "staging"]
          /\ UNCHANGED <<pending, mainPc, results>>
     \/ /\ faults
        /\ TaskFailed(i)
        /\ UNCHANGED frames
  /\ UNCHANGED <<configVars, queue, processedGifs, outVars, fsVars, framePaths,
                 processedImagePath, workerVars>>

\* await pipelineAsync(frames[k].getImage(), writeStream) of line 151 returns:
\* the frame file is written (the directory must exist) and its path pushed.
FrameWritten(i) ==
  /\ MainIdle
  /\ pc[i] = "staging"
  /\ \/ /\ tempDirExists
        /\ LET f == FramePath(imageFiles[i], Len(framePaths[i])) IN
           /\ tempFiles' = tempFiles \cup {f}
           /\ framePaths' = [framePaths EXCEPT ![i] = Append(@, f)]
        /\ pc' = [pc EXCEPT ![i] =
                    IF Len(framePaths[i]) + 1 < frames[i] THEN "staging"
                    ELSE "loadImage"]
        /\ UNCHANGED <<pending, mainPc, results>>
     \/ /\ faults \/ ~tempDirExists
        /\ TaskFailed(i)
        /\ UNCHANGED <<tempFiles, framePaths>>
  /\ UNCHANGED <<configVars, queue, processedGifs, outVars, tempDirExists,
                 frames, processedImagePath, workerVars>>

\* loadImage of line 156 reads and decodes every frame file (off the main
\* thread); a file that is gone, or no frame at all (images[0] of line 157 is
\* undefined), fails the task.
FramesReadableOrNone(i) ==
  \A k \in 1..Len(framePaths[i]) : framePaths[i][k] \in tempFiles
FramesReadable(i) ==
  /\ \A k \in 1..Len(framePaths[i]) : framePaths[i][k] \in tempFiles
  /\ Len(framePaths[i]) > 0
LoadImages(i) ==
  /\ pc[i] = "loadImage"
  /\ \/ /\ FramesReadable(i)
        /\ pc' = [pc EXCEPT ![i] = "imagesLoaded"]
        /\ UNCHANGED <<pending, mainPc, results>>
     \/ /\ faults \/ ~FramesReadable(i)
        /\ TaskFailed(i)
  /\ UNCHANGED <<configVars, queue, processedGifs, outVars, fsVars, taskVars,
                 workerVars>>

\* Promise.all of line 156 returns; lines 157-176: the canvas is drawn and
\* the combined image's write stream is opened, after a mkdir when
\* temp_frames is gone.
ImagesLoaded(i) ==
  /\ MainIdle
  /\ pc[i] = "imagesLoaded"
  /\ pc' = [pc EXCEPT ![i] =
              IF tempDirExists THEN "writeCombined" ELSE "mkdirAgain"]
  /\ UNCHANGED <<pending, mainPc, results, configVars, queue, processedGifs,
                 outVars, fsVars, taskVars, workerVars>>

\* await mkdir of line 170 returns.
MkdirAgainDone(i) ==
  /\ MainIdle
  /\ pc[i] = "mkdirAgain"
  /\ \/ /\ tempDirExists' = TRUE
        /\ pc' = [pc EXCEPT ![i] = "writeCombined"]
        /\ UNCHANGED <<pending, mainPc, results, tempFiles>>
     \/ /\ faults
        /\ TaskFailed(i)
        /\ UNCHANGED fsVars
  /\ UNCHANGED <<configVars, queue, processedGifs, outVars, taskVars, workerVars>>

CombinedOpenedExtracts(i) ==
  /\ MainIdle
  /\ pc[i] = "writeCombined"
  /\ tempDirExists
  /\ tempFiles' = tempFiles \cup {CombinedPath(imageFiles[i])}
  /\ CallExtractPalette(i, TempPathOf(CombinedPath(imageFiles[i])))
  /\ pc' = [pc EXCEPT ![i] = "extract"]
  /\ UNCHANGED <<pending, mainPc, results, configVars, queue, processedGifs,
                 outVars, tempDirExists, frames, framePaths>>
\* fs.createWriteStream(combinedImagePath) of line 176 opens the file, or
\* emits 'error' (line 179).
CombinedOpened(i) ==
  /\ MainIdle
  /\ pc[i] = "writeCombined"
  /\ \/ /\ tempDirExists
        /\ tempFiles' = tempFiles \cup {CombinedPath(imageFiles[i])}
        /\ pc' = [pc EXCEPT ![i] = "flushCombined"]
        /\ UNCHANGED <<pending, mainPc, results>>
     \/ /\ faults \/ ~tempDirExists
        /\ TaskFailed(i)
        /\ UNCHANGED tempFiles
  /\ UNCHANGED <<configVars, queue, processedGifs, outVars, tempDirExists,
                 taskVars, workerVars>>

\* The loop of lines 192-194: unlinkSync of each frame path in order; the
\* first path that is gone throws.  The files left, and whether it threw.
RECURSIVE UnlinkAll(_, _)
UnlinkAll(paths, fs) ==
  IF paths = <<>> THEN [files |-> fs, threw |-> FALSE]
  ELSE IF Head(paths) \notin fs THEN [files |-> fs, threw |-> TRUE]
  ELSE UnlinkAll(Tail(paths), fs \ {Head(paths)})

\* 'finish' of line 178 (or a late 'error'); lines 186-201: the combined
\* image must exist, the frame files are unlinked, extractPalette is called.
CombinedFinished(i) ==
  /\ MainIdle
  /\ pc[i] = "flushCombined"
  /\ LET combined == CombinedPath(imageFiles[i])
         unlinked == UnlinkAll(framePaths[i], tempFiles)
     IN
     \/ /\ combined \in tempFiles
        /\ ~unlinked.threw
        /\ tempFiles' = unlinked.files
        /\ CallExtractPalette(i, TempPathOf(combined))
        /\ pc' = [pc EXCEPT ![i] = "extract"]
        /\ UNCHANGED <<pending, mainPc, results>>
     \/ \* the write failed or the file is gone (line 187), or an unlink threw
        /\ faults \/ combined \notin tempFiles \/ unlinked.threw
        /\ tempFiles' \in {tempFiles} \cup
             (IF combined \in tempFiles /\ unlinked.threw
              THEN {unlinked.files} ELSE {})
        /\ TaskFailed(i)
        /\ UNCHANGED <<processedImagePath, workerVars>>
  /\ UNCHANGED <<configVars, queue, processedGifs, outVars, tempDirExists,
                 frames, framePaths>>


\* ---------------------------------------------------- the worker's thread
\* paletteWorker.js is loaded: the listener of line 13 is registered and the
\* ready notification posted (line 73), or the load throws (an 'error' event,
\* then 'exit' with a non-zero code).
WorkerBoot(i) ==
  /\ worker[i] = "starting"
  /\ \/ /\ worker' = [worker EXCEPT ![i] = "listening"]
        /\ evq' = [evq EXCEPT ![i] = Append(@, Event("ready"))]
     \/ /\ faults
        /\ worker' = [worker EXCEPT ![i] = "exited"]
        /\ evq' = [evq EXCEPT ![i] = @ \o <<Event("error"), Event("exit")>>]
  /\ UNCHANGED <<mainPc, configVars, queue, pending, pc, processedGifs, results,
                 outVars, fsVars, taskVars, promise, inbox>>

\* The test of lines 18-26: a path that is a string, or else a buffer.
HasImageData(data) == IsString(data.imagePath) \/ data.imageBuffer # "undefined"
ImageSource(data) ==
  IF IsString(data.imagePath) THEN data.imagePath ELSE BufferSource

\* fs.readFileSync(data.imagePath), line 20
FileReadable(path) ==
  \/ path.dir \in {"images", "buffer"}
  \/ path.dir = "temp" /\ path.file \in tempFiles

\* data.paletteSize || 5, line 51
WorkerPaletteSizeFixed(data) == DefaultPaletteSize
WorkerPaletteSize(data) ==
  IF data.paletteSize = 0 THEN DefaultPaletteSize ELSE data.paletteSize

\* err.message of the failure caught at line 64
FailureOf(data) ==
  IF ~HasImageData(data) THEN "No image data provided"
  ELSE IF ~FileReadable(ImageSource(data)) THEN "ENOENT"
  ELSE "Failed to load image"

\* The listener of lines 13-70 handles the request: it reads and decodes the
\* image and posts the palette (line 56), or posts the failure it caught (line
\* 65); or the thread dies of a fault no catch sees.
WorkerHandle(i) ==
  /\ worker[i] = "listening"
  /\ inbox[i] # <<>>
  /\ inbox' = [inbox EXCEPT ![i] = Tail(@)]
  /\ LET data == Head(inbox[i]) IN
     \/ /\ HasImageData(data)
        /\ FileReadable(ImageSource(data))
        /\ evq' = [evq EXCEPT ![i] = Append(@,
                     [type |-> "success",
                      palette |-> ProcessImageData(ImageSource(data),
                                                   WorkerPaletteSize(data)),
                      error |-> ""])]
        /\ UNCHANGED worker
     \/ /\ faults \/ ~HasImageData(data) \/ ~FileReadable(ImageSource(data))
        /\ evq' = [evq EXCEPT ![i] = Append(@,
                     [type |-> "failure", palette |-> <<>>,
                      error |-> FailureOf(data)])]
        /\ UNCHANGED worker
     \/ /\ faults
        /\ evq' = [evq EXCEPT ![i] = @ \o <<Event("error"), Event("exit")>>]
        /\ worker' = [worker EXCEPT ![i] = "exited"]
     \/ /\ faults
        /\ evq' = [evq EXCEPT ![i] = Append(@, Event("exit"))]
        /\ worker' = [worker EXCEPT ![i] = "exited"]
     \/ \* the image never loads (line 38) or the extraction never returns
        /\ i = hung
        /\ worker' = [worker EXCEPT ![i] = "hung"]
        /\ UNCHANGED evq
  /\ UNCHANGED <<mainPc, configVars, queue, pending, pc, processedGifs, results,
                 outVars, fsVars, taskVars, promise>>

\* A worker told to terminate stops: its thread ends and 'exit' (code 1) is
\* emitted.
WorkerExits(i) ==
  /\ worker[i] = "terminating"
  /\ worker' = [worker EXCEPT ![i] = "exited"]
  /\ evq' = [evq EXCEPT ![i] = Append(@, Event("exit"))]
  /\ UNCHANGED <<mainPc, configVars, queue, pending, pc, processedGifs, results,
                 outVars, fsVars, taskVars, promise, inbox>>

\* ------------------------------------------- extractPalette's listeners
\* worker.terminate(), called by a listener that has taken the head of evq:
\* a live worker is told to stop, which it does later on its own thread; the
\* request it has not handled is lost with it.
TerminateForgotten(i) ==
  /\ UNCHANGED <<worker, inbox>>
  /\ evq' = [evq EXCEPT ![i] = Tail(@)]
Terminated(i) ==
  /\ worker' = [worker EXCEPT ![i] =
                  IF @ \in {"starting", "listening"} THEN "terminating" ELSE @]
  /\ inbox' = [inbox EXCEPT ![i] = <<>>]
  /\ evq' = [evq EXCEPT ![i] = Tail(@)]

\* if (message.ready) return, lines 41-44
IsReadyNever(message) == FALSE
IsReady(message) == message.type = "ready"

\* worker.on('message'), lines 40-56
OnMessage(i) ==
  /\ MainIdle
  /\ promise[i].state # "none"
  /\ evq[i] # <<>>
  /\ Head(evq[i]).type \in {"ready", "success", "failure"}
  /\ LET message == Head(evq[i]) IN
     IF IsReady(message)
     THEN /\ evq' = [evq EXCEPT ![i] = Tail(@)]
          /\ UNCHANGED <<promise, worker, inbox>>
     ELSE /\ promise' = [promise EXCEPT ![i] =
                           IF message.type = "success"
                           THEN Resolve(@, message.palette)
                           ELSE Reject(@, message.error)]
          /\ Terminated(i)
  /\ UNCHANGED <<mainPc, configVars, queue, pending, pc, processedGifs, results,
                 outVars, fsVars, taskVars>>

\* worker.on('error'), lines 59-62
OnError(i) ==
  /\ MainIdle
  /\ promise[i].state # "none"
  /\ evq[i] # <<>>
  /\ Head(evq[i]).type = "error"
  /\ promise' = [promise EXCEPT ![i] = Reject(@, "Worker error")]
  /\ Terminated(i)
  /\ UNCHANGED <<mainPc, configVars, queue, pending, pc, processedGifs, results,
                 outVars, fsVars, taskVars>>

\* worker.on('exit'), lines 65-69; every exit the model produces has a
\* non-zero code (a fault, or terminate()).
ExitIgnored(p) == p
ExitCodeRejects(p) == Reject(p, "Worker stopped with exit code")
OnExit(i) ==
  /\ MainIdle
  /\ promise[i].state # "none"
  /\ evq[i] # <<>>
  /\ Head(evq[i]).type = "exit"
  /\ promise' = [promise EXCEPT ![i] = ExitCodeRejects(@)]
  /\ evq' = [evq EXCEPT ![i] = Tail(@)]
  /\ UNCHANGED <<mainPc, configVars, queue, pending, pc, processedGifs, results,
                 outVars, fsVars, taskVars, worker, inbox>>

\* ------------------------------------------------- after the extraction
PushReplacing(rs, entry) == <<entry>>
\* results.push(...), lines 211-214
Push(rs, entry) == Append(rs, entry)

\* `await extractPalette(...)` of line 198 returns or throws.  Lines 204-222:
\* the entry is pushed, and for a GIF temp_frames is removed when it exists.
\* { imageName: imageFile, colors: palette }, lines 211-214
ResultEntryOfExtractedPath(i) ==
  [imageName |-> processedImagePath[i].file, colors |-> promise[i].value]
ResultEntry(i) ==
  [imageName |-> imageFiles[i], colors |-> promise[i].value]

ExtractContinue(i) ==
  /\ pc[i] = "extract"
  /\ promise[i].state \in Settled
  /\ IF promise[i].state = "resolved"
     THEN /\ results' = Push(results, ResultEntry(i))
          /\ IF IsGifTask(i) /\ tempDirExists
             THEN pc' = [pc EXCEPT ![i] = "cleanup"] /\ UNCHANGED pending
             ELSE pc' = [pc EXCEPT ![i] = "done"] /\ PQueueNext
          /\ UNCHANGED mainPc
     ELSE TaskFailed(i)
  /\ UNCHANGED <<configVars, queue, processedGifs, outVars, fsVars, taskVars,
                 workerVars>>

\* await fs.promises.rm(tempFramesDir, { recursive: true, force: true }) of
\* line 220 returns: the directory and everything in it are gone, or the
\* error is caught and logged (line 223).  The task ends (line 230).
RmDone(i) ==
  /\ MainIdle
  /\ pc[i] = "cleanup"
  /\ \/ tempDirExists' = FALSE /\ tempFiles' = {}
     \/ faults /\ UNCHANGED fsVars
  /\ pc' = [pc EXCEPT ![i] = "done"]
  /\ PQueueNext
  /\ UNCHANGED <<mainPc, configVars, queue, processedGifs, results, outVars,
                 taskVars, workerVars>>

\* --------------------------------------------------------------- the report
QueueIsEmpty == queue = <<>>
\* Promise.all of line 120 has resolved: every task's promise has.
AllSettled == \A i \in Tasks : pc[i] \in Finished

\* await writeFile(absoluteOutputJsonPath, JSON.stringify(results)), line 235,
\* or its failure, caught at line 245.
WriteReport ==
  /\ mainPc = "awaiting"
  /\ AllSettled
  /\ \/ /\ report' = results
        /\ writes' = writes + 1
        /\ mainPc' = "written"
     \/ /\ faults
        /\ mainPc' = "writeFailed"
        /\ UNCHANGED outVars
  /\ UNCHANGED <<configVars, queue, pending, pc, processedGifs, results, fsVars,
                 taskVars, workerVars>>

\* The code the process ends with (-1 while it runs).  The catch of lines
\* 245-247 logs the error and lets processImages return, the caller of lines
\* 400-409 logs whatever comes back, and nothing sets process.exitCode or
\* calls process.exit: node ends with 0 on every path.
ExitCode ==
  CASE mainPc = "error" -> 0
    [] mainPc = "writeFailed" -> 0
    [] mainPc = "written" -> 0
    [] OTHER -> -1

Next ==
  \/ Enumerate
  \/ WriteReport
  \/ \E i \in TaskIds :
       \/ Start(i)
       \/ MkdirDone(i)
       \/ GifFramesDone(i)
       \/ FrameWritten(i)
       \/ LoadImages(i)
       \/ ImagesLoaded(i)
       \/ MkdirAgainDone(i)
       \/ CombinedOpened(i)
       \/ CombinedFinished(i)
       \/ WorkerBoot(i)
       \/ WorkerHandle(i)
       \/ WorkerExits(i)
       \/ OnMessage(i)
       \/ OnError(i)
       \/ OnExit(i)
       \/ ExtractContinue(i)
       \/ RmDone(i)

Spec == Init /\ [][Next]_vars

\* The listing may repeat an entry.
SpecRepeats == InitRepeats /\ [][Next]_vars

\* The event loop runs a callback that is ready, and a worker thread runs.
FairSpec == Init /\ [][Next]_vars /\ WF_vars(Next)

\* The run with and without faults: without, no operation fails that could
\* succeed, every GIF has a frame, and only the scheduling varies.
InitRerun ==
  /\ AtStart
  /\ maxThreads \in 1..MaxThreads
  /\ files \in Listings
  /\ paletteSize = ConfigPaletteSize
  /\ faults \in BOOLEAN
  /\ hung = 0
  /\ unit = NoUnit

RerunSpec == InitRerun /\ [][Next]_vars
FairRerunSpec == InitRerun /\ [][Next]_vars /\ WF_vars(Next)

\* The run under every palette size the configuration may set (0: none set),
\* on a folder of two GIFs or of a still and a GIF.
PaletteListings ==
  { << <<"a", ".gif">>, <<"b", ".GIF">> >>, << <<"c", ".png">>, <<"a", ".gif">> >> }

InitPalette ==
  /\ AtStart
  /\ maxThreads = MaxThreads
  /\ files \in PaletteListings
  /\ paletteSize \in 0..MaxPaletteSize
  /\ faults = TRUE
  /\ hung = 0
  /\ unit = NoUnit

PaletteSpec == InitPalette /\ [][Next]_vars

\* The run in which the worker of one invocation may never answer.
InitHang ==
  /\ AtStart
  /\ maxThreads \in 1..MaxThreads
  /\ files \in Listings
  /\ paletteSize = ConfigPaletteSize
  /\ faults = TRUE
  /\ hung \in TaskIds
  /\ unit = NoUnit

HangSpec == InitHang /\ [][Next]_vars /\ WF_vars(Next)

\* ------------------------------------------------ functions on their own
\* The frames option of line 143: config.maxGifFrames ? [0, ..., cap - 1] :
\* 'all' (a cap of 0 stands for null or no cap set).
RequestedFramesFromOne(cap) ==
  IF cap # 0 THEN [all |-> FALSE, indices |-> [k \in 1..cap |-> k]]
  ELSE [all |-> TRUE, indices |-> <<>>]
RequestedFrames(cap) ==
  IF cap # 0 THEN [all |-> FALSE, indices |-> [k \in 1..cap |-> k - 1]]
  ELSE [all |-> TRUE, indices |-> <<>>]

\* gifFrames({ url, frames, ... }) of lines 141-145 on a GIF of n frames: the
\* GIF's frames in their own order, those whose index is asked for.
GifFrames(n, request) ==
  LET Accepted(x) ==
        request.all \/ \E k \in 1..Len(request.indices) : request.indices[k] = x
  IN  SelectSeq([k \in 1..n |-> k - 1], Accepted)

\* Lines 157-162: the canvas is createCanvas(images[0].width * images.length,
\* images[0].height) and every image is drawn at (index * img.width, 0);
\* images[0] of an empty list is undefined and line 157 throws.
NoCanvas == [threw |-> TRUE, width |-> 0, height |-> 0, draws |-> <<>>]
CompositeCheckingHeights(images) ==
  IF images = <<>> \/ \E k \in 1..Len(images) : images[k].height # images[1].height
  THEN NoCanvas
  ELSE [threw |-> FALSE,
        width |-> images[1].width * Len(images),
        height |-> images[1].height,
        draws |-> [k \in 1..Len(images) |->
                    [x |-> (k - 1) * images[k].width, y |-> 0]]]
Composite(images) ==
  IF images = <<>> THEN NoCanvas
  ELSE [threw |-> FALSE,
        width |-> images[1].width * Len(images),
        height |-> images[1].height,
        draws |-> [k \in 1..Len(images) |->
                    [x |-> (k - 1) * images[k].width, y |-> 0]]]

\* What lines 105-136 and 198-201 make of a directory entry: whether it is a
\* candidate, whether it takes the GIF branch, and the path a still is
\* handed to extractPalette with.
RouteOf(name) ==
  [candidate |-> IsCandidate(name),
   animated |-> EndsWithGif(name),
   imagePath |-> ImagePathOf(name)]

\* Directories are absolute or relative lists of segments.
Dirname == [abs |-> TRUE, segs |-> <<"pkg">>]       \* __dirname of index.js
Dot == [abs |-> FALSE, segs |-> <<>>]                \* '.'
\* path.resolve(process.cwd(), p)
PathResolve(cwd, p) ==
  IF p.abs THEN p ELSE [abs |-> TRUE, segs |-> cwd.segs \o p.segs]

\* Lines 345-379: the images folder after the configuration is resolved, for
\* a working directory, with or without a sucker.config.js in it, whose
\* imagesFolder may be unset ('.' is taken, line 350).
ResolvedImagesFolder(arg) ==
  LET loaded == IF arg.userConfig
                THEN PathResolve(arg.cwd, arg.imagesFolder)   \* line 350
                ELSE arg.cwd                                  \* line 359
      absolute == IF loaded.abs THEN loaded
                  ELSE PathResolve(arg.cwd, loaded)           \* lines 371-373
  IN  IF arg.cwd # Dirname THEN arg.cwd ELSE absolute         \* lines 376-379

WorkingDirs == { Dirname, [abs |-> TRUE, segs |-> <<"work">>],
                 [abs |-> TRUE, segs |-> <<"home", "me">>] }
ConfiguredFolders == { Dot, [abs |-> FALSE, segs |-> <<"pics">>],
                       [abs |-> TRUE, segs |-> <<"data", "pics">>] }
ConfigUnits ==
  { [fn |-> "config",
     arg |-> [cwd |-> cwd, userConfig |-> u, imagesFolder |-> f],
     applied |-> FALSE, res |-> Dot] :
    cwd \in WorkingDirs, u \in BOOLEAN, f \in ConfiguredFolders }

\* The arguments the functions are applied to.
GifUnits ==
  { [fn |-> "gifFrames", arg |-> [length |-> n, maxGifFrames |-> cap],
     applied |-> FALSE, res |-> <<>>] :
    n \in 1..MaxGifLength, cap \in 0..(MaxGifLength + 1) }

ImageSizes == [width : 1..MaxSide, height : 1..MaxSide]
CompositeUnits ==
  { [fn |-> "composite", arg |-> images, applied |-> FALSE, res |-> NoCanvas] :
    images \in SeqsUpTo(ImageSizes, MaxImages) }

Stems == { <<"a">>, <<"a", "_frame">>, <<"a", "_frame", "1">>,
           <<"a", "_FRAME", "1", "2">>, <<"a", "_frame", "_", "0">>,
           <<"a", "_combined">>, <<>> }
Extensions == { <<".jpg">>, <<".JPG">>, <<".jpeg">>, <<".Jpeg">>, <<".png">>,
                <<".PNG">>, <<".Png">>, <<".gif">>, <<".GIF">>, <<".Gif">>,
                <<".txt">>, <<".bmp">>, <<"gif">>, <<>> }
FileNames == { stem \o ext : stem \in Stems, ext \in Extensions } \ { <<>> }
RouteUnits ==
  { [fn |-> "route", arg |-> name, applied |-> FALSE,
     res |-> RouteOf(<<"a">>)] : name \in FileNames }

\* Lines 147-153 and 164: the paths in temp_frames a GIF task writes to, for
\* its frame of one index and for its combined image.
TransientPaths(name, i) ==
  [frame |-> FramePath(name, i), combined |-> CombinedPath(name)]
GifNames == { <<"a", ".gif">>, <<"a", ".GIF">>, <<"a", ".GIF", ".gif">>,
              <<"a", "_combined", ".gif">>, <<"b", ".Gif">> }
FrameIndices == 0..MaxFrames
NamingUnits ==
  { [fn |-> "naming",
     arg |-> [first |-> n1, i |-> i, second |-> n2, j |-> j],
     applied |-> FALSE,
     res |-> <<>>] :
    n1 \in GifNames, n2 \in GifNames, i \in FrameIndices, j \in FrameIndices }

InitUnit ==
  /\ AtStart
  /\ maxThreads = 1
  /\ files = <<>>
  /\ paletteSize = ConfigPaletteSize
  /\ faults = TRUE
  /\ hung = 0
  /\ \/ unit \in GifUnits
     \/ unit \in CompositeUnits
     \/ unit \in RouteUnits
     \/ unit \in ConfigUnits
     \/ unit \in NamingUnits

pipelineVars ==
  <<mainPc, maxThreads, files, imageFiles, queue, pending, pc, processedGifs,
    results, report, tempDirExists, tempFiles, frames, framePaths,
    processedImagePath, promise, worker, inbox, evq, writes, paletteSize, faults,
    hung>>

ApplyGifFrames ==
  /\ unit.fn = "gifFrames" /\ ~unit.applied
  /\ unit' = [unit EXCEPT
                !.res = GifFrames(unit.arg.length,
                                  RequestedFrames(unit.arg.maxGifFrames)),
                !.applied = TRUE]
  /\ UNCHANGED pipelineVars

ApplyComposite ==
  /\ unit.fn = "composite" /\ ~unit.applied
  /\ unit' = [unit EXCEPT !.res = Composite(unit.arg), !.applied = TRUE]
  /\ UNCHANGED pipelineVars

ApplyRoute ==
  /\ unit.fn = "route" /\ ~unit.applied
  /\ unit' = [unit EXCEPT !.res = RouteOf(unit.arg), !.applied = TRUE]
  /\ UNCHANGED pipelineVars

ApplyConfig ==
  /\ unit.fn = "config" /\ ~unit.applied
  /\ unit' = [unit EXCEPT !.res = ResolvedImagesFolder(unit.arg), !.applied = TRUE]
  /\ UNCHANGED pipelineVars

ApplyNaming ==
  /\ unit.fn = "naming" /\ ~unit.applied
  /\ unit' = [unit EXCEPT
                !.res = <<TransientPaths(unit.arg.first, unit.arg.i),
                          TransientPaths(unit.arg.second, unit.arg.j)>>,
                !.applied = TRUE]
  /\ UNCHANGED pipelineVars

NextUnit ==
  \/ ApplyGifFrames
  \/ ApplyComposite
  \/ ApplyRoute
  \/ ApplyConfig
  \/ ApplyNaming

UnitSpec == InitUnit /\ [][NextUnit]_vars

\* ------------------------------------------- extractPalette on its own
\* index.js exports extractPalette, and paletteWorker.js answers whoever
\* posts to it.  Invocation 1 is a caller's extractPalette(options);
\* invocation 2 is a worker whose parent posts a message of its own making.
ApiOptions ==
  [imagePath : {UndefinedPath, EmptyPath, ObjectPath, ImagePathOf(<<"c", ".png">>)},
   imageBuffer : {"undefined", "bytes"},
   paletteSize : 0..MaxPaletteSize]

InitApi ==
  /\ AtStart
  /\ maxThreads = 1
  /\ files = <<>>
  /\ paletteSize = ConfigPaletteSize
  /\ faults = TRUE
  /\ hung = 0
  /\ unit = NoUnit

\* a caller's extractPalette(options)
DirectCall(options) ==
  /\ promise[1].state = "none"
  /\ ExtractPalette(1, options)
  /\ UNCHANGED <<mainPc, configVars, queue, pending, pc, processedGifs, results,
                 outVars, fsVars, taskVars>>

\* new Worker(paletteWorker.js) and worker.postMessage(data) by a parent that
\* registers no listener of extractPalette
ParentPosts(data) ==
  /\ worker[2] = "none"
  /\ worker' = [worker EXCEPT ![2] = "starting"]
  /\ inbox' = [inbox EXCEPT ![2] = <<data>>]
  /\ UNCHANGED <<mainPc, configVars, queue, pending, pc, processedGifs, results,
                 outVars, fsVars, taskVars, promise, evq>>

NextApi ==
  \/ \E options \in ApiOptions : DirectCall(options)
  \/ \E data \in ApiOptions : ParentPosts(data)
  \/ \E i \in 1..2 :
       \/ WorkerBoot(i)
       \/ WorkerHandle(i)
       \/ WorkerExits(i)
       \/ OnMessage(i)
       \/ OnError(i)
       \/ OnExit(i)

ApiSpec == InitApi /\ [][NextApi]_vars


\* ================================================================ claims
Running == { i \in TaskIds : pc[i] \notin ({"none", "queued"} \cup Finished) }

RECURSIVE CountName(_, _)
CountName(rs, name) ==
  IF rs = <<>> THEN 0
  ELSE (IF Head(rs).imageName = name THEN 1 ELSE 0) + CountName(Tail(rs), name)

\* C1: at every instant the number of tasks that have started and not yet
\* finished is at most config.maxThreads.
C1_ConcurrencyBound == Cardinality(Running) <= maxThreads

\* every slot is taken while a task waits in the queue
C1_Witness == Cardinality(Running) = maxThreads /\ queue # <<>>

\* C2: every task added to the queue eventually starts and eventually
\* finishes (done, failed or skipped), every I/O step and extraction
\* returning; none stays queued for ever.
C2_EveryTaskFinishes ==
  (mainPc = "awaiting") ~> (queue = <<>> /\ \A i \in Tasks : pc[i] \in Finished)

\* a task that had to wait for a slot has run to its end
C2_Witness == \E i \in Tasks : i > maxThreads /\ pc[i] = "done"

\* C3: the report is written at most once, and only when every submitted
\* task has finished; what is written is the results array as it then stands.
C3_ReportAfterAllTasks ==
  /\ writes <= 1
  /\ writes > 0 =>
       /\ \A i \in Tasks : pc[i] \in Finished
       /\ queue = <<>>
       /\ report = results

\* the report is written after a batch in which tasks succeeded and failed
C3_Witness ==
  /\ writes = 1
  /\ \E i, j \in Tasks : pc[i] = "done" /\ pc[j] = "failed"

\* C4: a failure inside one task never aborts the batch: the run never ends
\* in the error state once tasks are dispatched, every other task still runs
\* to its end, the write of the report is reached, and a written report holds
\* every image whose task succeeded.
C4_FailureNeverAborts ==
  /\ [](NumTasks > 0 => mainPc # "error")
  /\ [](mainPc = "written" =>
          \A i \in Tasks : pc[i] = "done" => CountName(report, imageFiles[i]) >= 1)
  /\ (\E i \in Tasks : pc[i] = "failed") ~>
       (/\ \A i \in Tasks : pc[i] \in Finished
        /\ mainPc \in {"written", "writeFailed"})

\* one task failed, another succeeded, and the report holds the other
C4_Witness ==
  /\ mainPc = "written"
  /\ \E i, j \in Tasks :
       /\ pc[i] = "failed" /\ pc[j] = "done"
       /\ CountName(report, imageFiles[j]) = 1

\* C5 as claimed: the written report has exactly one entry per image that was
\* attempted (not skipped), a failed image included.
C5_OneEntryPerAttempted ==
  mainPc = "written" =>
    \A i \in Tasks :
      pc[i] # "skipped" => CountName(report, imageFiles[i]) = 1

\* C5 as amended: the written report has exactly one entry per image whose
\* task succeeded and no entry, so no error marker, for an image whose task
\* failed mid-pipeline.
C5_OneEntryPerSucceeded ==
  mainPc = "written" =>
    /\ \A i \in Tasks :
         CountName(report, imageFiles[i]) = (IF pc[i] = "done" THEN 1 ELSE 0)
    /\ \A k \in 1..Len(report) :
         \E i \in Tasks : /\ report[k].imageName = imageFiles[i]
                          /\ report[k].colors = promise[i].value
                          /\ promise[i].state = "resolved"

\* a report written after a task failed mid-pipeline, with an entry for another
C5_Witness ==
  /\ mainPc = "written"
  /\ Len(report) >= 1
  /\ \E i \in Tasks : pc[i] = "failed" /\ IsGifTask(i) /\ framePaths[i] # <<>>

\* C6: no append to results is lost or duplicated: an image has one entry
\* exactly when its extraction resolved and its task went past the push, a
\* failed task has none, and the written report names exactly the images
\* whose extraction succeeded, once each.
C6_AppendsSerialized ==
  /\ \A i \in Tasks :
       CountName(results, imageFiles[i]) =
         (IF pc[i] \in {"cleanup", "done"} THEN 1 ELSE 0)
  /\ Len(results) = Cardinality({ i \in Tasks : pc[i] \in {"cleanup", "done"} })
  /\ \A i \in Tasks : pc[i] \in {"cleanup", "done"} => promise[i].state = "resolved"
  /\ mainPc = "written" =>
       /\ Len(report) = Cardinality({ i \in Tasks : promise[i].state = "resolved" })
       /\ \A i \in Tasks :
            CountName(report, imageFiles[i]) =
              (IF promise[i].state = "resolved" THEN 1 ELSE 0)

\* two tasks ran side by side, the second finished first, both entries are in
\* the written report
C6_Witness ==
  /\ mainPc = "written"
  /\ maxThreads = 2
  /\ Len(report) = 2
  /\ report[1].imageName = imageFiles[2]


\* C7 as claimed: a GIF task's combined image, once written, is still there
\* while the task's extraction has yet to read it, whatever the other tasks do.
C7_CombinedSurvivesUntilRead ==
  \A i \in Tasks :
    ( /\ IsGifTask(i)
      /\ pc[i] = "extract"
      /\ worker[i] \in {"starting", "listening"}
      /\ inbox[i] # <<>> )
    => processedImagePath[i].file \in tempFiles

\* C8 as claimed: when the report is written no transient file is left in
\* temp_frames.
C8_NoTransientFileLeft == mainPc = "written" => tempFiles = {}

\* C9: of the tasks for one GIF name at most one goes past the processedGifs
\* guard; every later task for that name is skipped, having sampled nothing,
\* staged nothing and created no worker, and the name has at most one entry.
C9_GifProcessedOnce ==
  /\ \A i, j \in Tasks :
       ( /\ i < j
         /\ imageFiles[i] = imageFiles[j]
         /\ EndsWithGif(imageFiles[j])
         /\ pc[j] # "queued" )
       => /\ pc[j] = "skipped"
          /\ frames[j] = 0
          /\ framePaths[j] = <<>>
          /\ worker[j] = "none"
          /\ promise[j] = NoPromise
  /\ \A i \in Tasks :
       EndsWithGif(imageFiles[i]) => CountName(results, imageFiles[i]) <= 1

\* a GIF listed twice: its first task has run to the end, its second is skipped
C9_Witness ==
  \E i, j \in Tasks :
    /\ i < j
    /\ imageFiles[i] = imageFiles[j]
    /\ EndsWithGif(imageFiles[i])
    /\ pc[i] = "done"
    /\ pc[j] = "skipped"

\* the main thread takes the head of invocation i's event queue in this step
C10_Handles(i, type) ==
  /\ evq[i] # <<>>
  /\ Head(evq[i]).type = type
  /\ evq'[i] = Tail(evq[i])

LiveWorkers ==
  { i \in TaskIds : worker[i] \in {"starting", "listening", "hung", "terminating"} }
\* workers that have yet to deliver an outcome and were not told to terminate
ActiveUnits == { i \in TaskIds : worker[i] \in {"starting", "listening", "hung"} }

\* C11 as claimed: at every instant the number of worker threads created and
\* not yet exited is at most config.maxThreads.
C11_LiveWorkersBounded == Cardinality(LiveWorkers) <= maxThreads

\* C11 as amended: at every instant at most config.maxThreads workers have
\* been created and neither delivered their outcome nor been told to
\* terminate, and a task whose slot is released has an extraction that has
\* completed or failed: its promise is settled and its worker is stopping or
\* has exited.
C11_ActiveUnitsBounded ==
  /\ Cardinality(ActiveUnits) <= maxThreads
  /\ \A i \in Tasks :
       pc[i] \in Finished =>
         /\ i \notin ActiveUnits
         /\ promise[i].state # "pending"

\* every slot is held by a working unit while the worker of a finished task
\* is still on its way out
C11_Witness ==
  /\ Cardinality(ActiveUnits) = maxThreads
  /\ \E i \in Tasks : pc[i] = "done" /\ worker[i] = "terminating"


\* a request or an option set with neither an image path nor an image buffer
C12_NoInput(d) == d.imagePath = UndefinedPath /\ d.imageBuffer = "undefined"

\* C12: extractPalette called with neither imagePath nor imageBuffer rejects
\* with the no-input error, creating no worker and posting no message: a call
\* either rejects so or posts a request that carries an input; and a worker
\* that handles a request with neither field posts a failure message saying
\* so, never a palette.
C12_NoInputRejected ==
  /\ [](\A i \in TaskIds :
          promise[i].error = NoInputError =>
            /\ promise[i].state = "rejected"
            /\ worker[i] = "none" /\ inbox[i] = <<>> /\ evq[i] = <<>>)
  /\ [][\A i \in TaskIds :
          /\ (promise[i].state = "none" /\ promise'[i].state # "none") =>
               \/ /\ promise'[i].error = NoInputError
                  /\ UNCHANGED <<worker, inbox, evq>>
               \/ /\ promise'[i].state = "pending"
                  /\ worker'[i] = "starting"
                  /\ Len(inbox'[i]) = 1
                  /\ ~C12_NoInput(inbox'[i][1])
          /\ ( /\ worker[i] = "listening"
               /\ inbox[i] # <<>>
               /\ C12_NoInput(Head(inbox[i]))
               /\ inbox'[i] = Tail(inbox[i])
               /\ Len(evq'[i]) > Len(evq[i]) ) =>
               \A k \in (Len(evq[i]) + 1)..Len(evq'[i]) :
                 /\ evq'[i][k].type # "success"
                 /\ evq'[i][k].type = "failure" =>
                      evq'[i][k].error = "No image data provided"]_vars

\* a call without input was rejected with no worker, and a worker that was
\* posted a request without input has answered with the failure
C12_Witness ==
  /\ promise[1].state = "rejected" /\ promise[1].error = NoInputError
  /\ worker[1] = "none"
  /\ worker[2] = "listening" /\ inbox[2] = <<>>
  /\ \E k \in 1..Len(evq[2]) :
       evq[2][k].type = "failure" /\ evq[2][k].error = "No image data provided"


\* C13 as claimed: when the enumeration of the directory fails no task is
\* dispatched, no report is written, and the run ends with a non-zero exit
\* code.
C13_EnumerationFailureAborts ==
  mainPc = "error" =>
    /\ \A i \in TaskIds : pc[i] = "none" /\ worker[i] = "none"
    /\ writes = 0
    /\ ExitCode # 0


\* C14 as claimed: the filter of the enumeration rejects the name of every
\* staged frame file, `<base>_frame_<i>.png`.
C14_StagedFramesExcluded ==
  \A i \in Tasks :
    \A k \in 1..Len(framePaths[i]) : ~IsCandidate(framePaths[i][k])


\* C15: for a GIF of F >= 1 frames and a frame cap C the sampler yields the
\* frames 0 .. min(F, C) - 1 in the GIF's own order, and all F frames when no
\* cap is set; a GIF with fewer frames than the cap yields all of its frames.
C15_SampledFrames ==
  (unit.fn = "gifFrames" /\ unit.applied) =>
    LET F == unit.arg.length
        C == unit.arg.maxGifFrames
        count == IF C = 0 THEN F ELSE Min(F, C)
    IN  /\ Len(unit.res) = count
        /\ \A k \in 1..count : unit.res[k] = k - 1

\* a GIF of two frames sampled under a cap of three: both frames, in order
C15_Witness ==
  /\ unit.fn = "gifFrames" /\ unit.applied
  /\ unit.arg.length = 2 /\ unit.arg.maxGifFrames = 3
  /\ unit.res = <<0, 1>>


\* the widths of the first n images, added up
RECURSIVE C16_SumOfWidths(_, _)
C16_SumOfWidths(images, n) ==
  IF n = 0 THEN 0 ELSE C16_SumOfWidths(images, n - 1) + images[n].width

\* C16 as claimed: for any non-empty list of frames of one height the
\* composite is as wide as the frames' widths added up and as high as the
\* first frame, and frame i is drawn at x = the widths of the frames before
\* it added up, y = 0, also when the widths differ.
C16_CompositeGeometry ==
  ( /\ unit.fn = "composite" /\ unit.applied
    /\ unit.arg # <<>>
    /\ \A k \in 1..Len(unit.arg) : unit.arg[k].height = unit.arg[1].height )
  => /\ ~unit.res.threw
     /\ unit.res.width = C16_SumOfWidths(unit.arg, Len(unit.arg))
     /\ unit.res.height = unit.arg[1].height
     /\ Len(unit.res.draws) = Len(unit.arg)
     /\ \A k \in 1..Len(unit.arg) :
          /\ unit.res.draws[k].x = C16_SumOfWidths(unit.arg, k - 1)
          /\ unit.res.draws[k].y = 0

\* the frames do not all have the first frame's height
C17_HeightsDiffer(images) ==
  \E k \in 1..Len(images) : images[k].height # images[1].height

\* C17 as claimed: compositing frames whose heights differ fails, and no
\* combined image is produced.
C17_MismatchedHeightsFail ==
  (unit.fn = "composite" /\ unit.applied /\ C17_HeightsDiffer(unit.arg))
  => unit.res.threw

\* C17 as amended: compositing frames whose heights differ does not fail: the
\* canvas takes the first frame's height and its width times the number of
\* frames, and every frame is drawn, at y = 0.
C17_MismatchedHeightsDrawn ==
  (unit.fn = "composite" /\ unit.applied /\ C17_HeightsDiffer(unit.arg))
  => /\ ~unit.res.threw
     /\ unit.res.height = unit.arg[1].height
     /\ unit.res.width = unit.arg[1].width * Len(unit.arg)
     /\ Len(unit.res.draws) = Len(unit.arg)
     /\ \A k \in 1..Len(unit.arg) : unit.res.draws[k].y = 0

\* a frame of height 1 followed by one of height 2 was composited to a canvas
\* of height 1
C17_Witness ==
  /\ unit.fn = "composite" /\ unit.applied
  /\ Len(unit.arg) = 2
  /\ unit.arg[1].height = 1 /\ unit.arg[2].height = 2
  /\ ~unit.res.threw /\ unit.res.height = 1


\* C18: for a palette size K >= 1 set in the configuration, every request
\* posted to a worker asks for K colors, every palette a worker posts is the
\* capability's answer for the image read and the size K, and the colors
\* recorded for an image are that answer: min(K, colors found) of them, so
\* at most K.
C18_PaletteSizeHonoured ==
  paletteSize >= 1 =>
    /\ \A i \in Tasks :
         /\ \A k \in 1..Len(inbox[i]) : inbox[i][k].paletteSize = paletteSize
         /\ \A k \in 1..Len(evq[i]) :
              evq[i][k].type = "success" =>
                evq[i][k].palette = ProcessImageData(processedImagePath[i], paletteSize)
    /\ \A k \in 1..Len(results) :
         \E i \in Tasks :
           /\ results[k].imageName = imageFiles[i]
           /\ results[k].colors = ProcessImageData(processedImagePath[i], paletteSize)
           /\ Len(results[k].colors) =
                Min(paletteSize, Len(ColorRank(processedImagePath[i])))
           /\ Len(results[k].colors) <= paletteSize

\* a combined image of two colors, extracted with K = 1: one color recorded
C18_Witness ==
  /\ paletteSize = 1
  /\ \E k \in 1..Len(results) :
       \E i \in Tasks :
         /\ IsGifTask(i)
         /\ results[k].imageName = imageFiles[i]
         /\ Len(ColorRank(processedImagePath[i])) = 2
         /\ Len(results[k].colors) = 1


\* the entry of a candidate whose task succeeds
C19_EntryOf(name) ==
  [imageName |-> name,
   colors |-> ProcessImageData(
                IF EndsWithGif(name) THEN TempPathOf(CombinedPath(name))
                ELSE ImagePathOf(name),
                PaletteSizeOrDefault(paletteSize))]

\* C19 as claimed: with a deterministic extraction and no fault, the report
\* written is the same set of entries on every run over the same directory,
\* whatever the scheduling: the set a run in which every task succeeds writes.
C19_ReportDeterminedByDirectory ==
  (~faults /\ mainPc = "written") =>
    { report[k] : k \in 1..Len(report) } =
      { C19_EntryOf(imageFiles[i]) : i \in Tasks }

\* two runs over the folder of a.gif and b.GIF, without faults, that differ
C19_BothWritten ==
  /\ ~faults /\ mainPc = "written"
  /\ files = << <<"a", ".gif">>, <<"b", ".GIF">> >>
  /\ Len(report) = 2
C19_OneWritten ==
  /\ ~faults /\ mainPc = "written"
  /\ files = << <<"a", ".gif">>, <<"b", ".GIF">> >>
  /\ Len(report) = 1


\* the name ends in .jpg, .jpeg, .png or .gif, in any case
C20_GifEndings == {".gif", ".GIF", ".Gif"}
C20_PngEndings == {".png", ".PNG", ".Png"}
C20_ImageEndings ==
  C20_GifEndings \cup C20_PngEndings \cup
    {".jpg", ".JPG", ".Jpg", ".jpeg", ".JPEG", ".Jpeg"}
C20_HasImageExtension(name) == Len(name) > 0 /\ name[Len(name)] \in C20_ImageEndings

\* the name ends in _frame, any digits, .png, in any case
C20_IsFrameName(name) ==
  /\ Len(name) >= 2
  /\ name[Len(name)] \in C20_PngEndings
  /\ \E j \in 1..(Len(name) - 1) :
       /\ name[j] \in {"_frame", "_FRAME", "_Frame"}
       /\ \A k \in (j + 1)..(Len(name) - 1) : IsDigitToken(name[k])

\* C20 as claimed: a file is a candidate exactly when its name ends in .jpg,
\* .jpeg, .png or .gif in any case; a candidate is animated exactly when its
\* extension is .gif in any case; any other candidate goes to extraction
\* under its own path.
C20_CandidateByExtension ==
  (unit.fn = "route" /\ unit.applied) =>
    /\ unit.res.candidate <=> C20_HasImageExtension(unit.arg)
    /\ unit.res.candidate =>
         /\ unit.res.animated <=> unit.arg[Len(unit.arg)] \in C20_GifEndings
         /\ ~unit.res.animated => unit.res.imagePath = ImagePathOf(unit.arg)

\* C20 as amended: a file is a candidate exactly when its name ends in .jpg,
\* .jpeg, .png or .gif in any case and does not end in _frame<digits>.png;
\* a candidate is animated exactly when its extension is .gif in any case;
\* any other candidate goes to extraction under its own path.
C20_CandidateByExtensionNotFrame ==
  (unit.fn = "route" /\ unit.applied) =>
    /\ unit.res.candidate <=>
         (C20_HasImageExtension(unit.arg) /\ ~C20_IsFrameName(unit.arg))
    /\ unit.res.candidate =>
         /\ unit.res.animated <=> unit.arg[Len(unit.arg)] \in C20_GifEndings
         /\ ~unit.res.animated => unit.res.imagePath = ImagePathOf(unit.arg)

\* a_FRAME12.PNG ends in .PNG and is no candidate
C20_Witness ==
  /\ unit.fn = "route" /\ unit.applied
  /\ unit.arg = <<"a", "_FRAME", "1", "2", ".PNG">>
  /\ ~unit.res.candidate


\* C21 as claimed: with a sucker.config.js in the working directory that sets
\* imagesFolder, the images are enumerated from that folder, resolved against
\* the working directory, whatever the working directory is.
C21_ConfiguredFolderUsed ==
  ( /\ unit.fn = "config" /\ unit.applied
    /\ unit.arg.userConfig
    /\ unit.arg.imagesFolder # Dot )
  => unit.res = PathResolve(unit.arg.cwd, unit.arg.imagesFolder)


\* the place of a task's position in the order of its steps
C22_Rank(p) ==
  CASE p = "none" -> 0
    [] p = "queued" -> 1
    [] p = "mkdir" -> 2
    [] p = "gifFrames" -> 3
    [] p = "staging" -> 4
    [] p = "loadImage" -> 5
    [] p = "imagesLoaded" -> 6
    [] p = "mkdirAgain" -> 7
    [] p = "writeCombined" -> 8
    [] p = "flushCombined" -> 9
    [] p = "extract" -> 10
    [] p = "cleanup" -> 11
    [] OTHER -> 12

\* C22: within one task the steps follow one another: sampling, the staging
\* of every frame, compositing, the end of the combined image's write,
\* extraction, the append to results.  A task never steps back; a frame is
\* staged only after the sampling; a GIF's worker is created only in the
\* step that sees the combined image's write finished, every frame staged;
\* and an entry is appended only by a task whose extraction has resolved.
C22_StepsSequential ==
  [][\A i \in Tasks :
       /\ pc'[i] # pc[i] => C22_Rank(pc'[i]) > C22_Rank(pc[i])
       /\ framePaths'[i] # framePaths[i] =>
            /\ pc[i] = "staging"
            /\ Len(framePaths'[i]) <= frames[i]
       /\ (IsGifTask(i) /\ worker[i] = "none" /\ worker'[i] # "none") =>
            /\ pc[i] = "flushCombined"
            /\ Len(framePaths[i]) = frames[i]
            /\ frames[i] >= 1
            /\ CombinedPath(imageFiles[i]) \in tempFiles
            /\ processedImagePath'[i] = TempPathOf(CombinedPath(imageFiles[i]))
       /\ CountName(results', imageFiles[i]) > CountName(results, imageFiles[i]) =>
            /\ pc[i] = "extract"
            /\ promise[i].state = "resolved"
            /\ worker[i] \notin {"none", "starting", "listening"}]_vars

\* a GIF task that went through every step to its entry
C22_Witness ==
  \E i \in Tasks :
    /\ IsGifTask(i)
    /\ pc[i] = "done"
    /\ frames[i] >= 1 /\ Len(framePaths[i]) = frames[i]
    /\ CountName(results, imageFiles[i]) = 1


\* C23: once the worker of an admitted task hangs, the task stays where it
\* is, holding its slot, and the report is never written; and with two slots
\* or more every other task is still started and runs to its end, after
\* which the hung task holds the only slot in use.
C23_HungTaskHoldsOneSlot ==
  /\ \A h \in TaskIds :
       [](worker[h] = "hung" =>
            [](/\ worker[h] = "hung"
               /\ pc[h] = "extract"
               /\ promise[h].state = "pending"
               /\ pending >= 1
               /\ mainPc = "awaiting"
               /\ writes = 0))
  /\ (\E h \in TaskIds : worker[h] = "hung" /\ maxThreads >= 2) ~>
       (/\ queue = <<>>
        /\ pending = 1
        /\ \A j \in Tasks : worker[j] # "hung" => pc[j] \in Finished)

\* the first task hangs; the second, submitted after it, is done
C23_Witness ==
  /\ worker[1] = "hung"
  /\ NumTasks = 2
  /\ pc[2] = "done"
  /\ pending = 1


\* C24: tasks are started in the order they were submitted, the order of the
\* enumeration: a task that still waits has no later task started before it,
\* and the waiting tasks are queued in that order.
C24_AdmittedInOrder ==
  /\ \A i, j \in Tasks : (i < j /\ pc[i] = "queued") => pc[j] = "queued"
  /\ \A k \in 1..Len(queue) :
       /\ pc[queue[k]] = "queued"
       /\ k > 1 => queue[k - 1] < queue[k]

\* with one slot, the second image's task waited for the first and has started
C24_Witness ==
  /\ maxThreads = 1
  /\ NumTasks = 2
  /\ pc[1] \in {"done", "failed"}
  /\ pc[2] \notin {"none", "queued"}


\* C25: the outcome of an extractPalette invocation is decided exactly once, by
\* the first of a result message, an error event and a non-zero exit: the
\* event that finds the promise pending settles it with its own outcome, and
\* no later event (the exit that follows terminate() after a success, an exit
\* after an error) changes a promise that is settled.
C25_OutcomeOf(event) ==
  CASE event.type = "success" ->
         [state |-> "resolved", value |-> event.palette, error |-> ""]
    [] event.type = "failure" ->
         [state |-> "rejected", value |-> <<>>, error |-> event.error]
    [] event.type = "error" ->
         [state |-> "rejected", value |-> <<>>, error |-> "Worker error"]
    [] event.type = "exit" ->
         [state |-> "rejected", value |-> <<>>,
          error |-> "Worker stopped with exit code"]
C25_DecidedOnce ==
  [][\A i \in DOMAIN promise :
       /\ promise[i].state \in Settled => promise'[i] = promise[i]
       /\ (promise[i].state = "pending" /\ promise'[i] # promise[i]) =>
            /\ evq[i] # <<>>
            /\ Head(evq[i]).type # "ready"
            /\ promise'[i] = C25_OutcomeOf(Head(evq[i]))]_vars

\* the promise was resolved, the worker it terminated has exited with a
\* non-zero code, the exit listener has run, and the outcome is still success
C25_Witness ==
  \E i \in DOMAIN promise :
    /\ promise[i].state = "resolved"
    /\ worker[i] = "exited"
    /\ evq[i] = <<>>


\* C26: the ready notification neither settles the invocation nor terminates
\* the worker; the one request posted at the worker's creation is handled at
\* most once, whether the worker handles it before or after the parent has
\* received the ready notification, and a worker that handles it posts exactly
\* one result message (a success or a failure), unless its thread dies; with
\* no fault the result message is always posted.
C26_ResultCount(q) ==
  Cardinality({k \in 1..Len(q) : q[k].type \in {"success", "failure"}})
C26_ReadyReceived(i) ==
  /\ evq[i] # <<>>
  /\ Head(evq[i]).type = "ready"
  /\ evq'[i] = Tail(evq[i])
C26_RequestHandled(i) ==
  /\ inbox[i] # <<>>
  /\ inbox'[i] # inbox[i]
  /\ Len(evq'[i]) >= Len(evq[i])
C26_Step(i) ==
  /\ C26_ReadyReceived(i) =>
       /\ promise'[i] = promise[i]
       /\ worker'[i] = worker[i]
       /\ inbox'[i] = inbox[i]
  /\ inbox'[i] # inbox[i] =>
       \/ inbox[i] = <<>> /\ Len(inbox'[i]) = 1 /\ worker'[i] = "starting"
       \/ inbox'[i] = <<>>
  /\ C26_RequestHandled(i) =>
       /\ worker[i] = "listening"
       /\ \/ C26_ResultCount(evq'[i]) = C26_ResultCount(evq[i]) + 1
          \/ /\ worker'[i] \in {"exited", "hung"}
             /\ C26_ResultCount(evq'[i]) = C26_ResultCount(evq[i])
C26_SettledByResult(i) ==
  \/ promise[i].state = "resolved"
  \/ /\ promise[i].state = "rejected"
     /\ promise[i].error \notin {"Worker error", "Worker stopped with exit code"}
C26_WorkerProtocol ==
  /\ [][\A i \in DOMAIN worker : C26_Step(i)]_vars
  /\ [](\A i \in DOMAIN worker : C26_ResultCount(evq[i]) + Len(inbox[i]) <= 1)
  /\ \A i \in TaskIds :
       (~faults /\ inbox[i] # <<>>) ~> C26_SettledByResult(i)

\* the worker handled the request and posted its result while the ready
\* notification was still waiting for the parent, and the parent has since
\* received the ready notification without settling anything
C26_Witness ==
  \E i \in DOMAIN worker :
    /\ worker[i] = "listening"
    /\ promise[i].state = "pending"
    /\ inbox[i] = <<>>
    /\ Len(evq[i]) = 1
    /\ C26_ResultCount(evq[i]) = 1


\* C27: the naming of the transient files is injective: the frame paths and
\* the combined paths of two distinct candidate GIF names are pairwise
\* distinct, whatever the frame indices, so that two GIF tasks never write to
\* the same path.
C27_PathsOf(paths) == {paths.frame, paths.combined}
C27_TransientNamingInjective ==
  (/\ unit.fn = "naming"
   /\ unit.applied
   /\ IsCandidate(unit.arg.first) /\ EndsWithGif(unit.arg.first)
   /\ IsCandidate(unit.arg.second) /\ EndsWithGif(unit.arg.second)
   /\ unit.arg.first # unit.arg.second)
  => C27_PathsOf(unit.res[1]) \cap C27_PathsOf(unit.res[2]) = {}


\* C28: a GIF whose sampling gave no frame fails as one item: its task ends
\* failed before a combined image is written and before a worker is created
\* for it, the failure leaves the run and its results as they are, and the
\* batch goes on until every task has ended.
C28_NoFrames(i) ==
  /\ i \in Tasks
  /\ IsGifTask(i)
  /\ frames[i] = 0
  /\ pc[i] \notin {"none", "queued", "skipped", "mkdir", "gifFrames"}
C28_EmptyAnimationFails ==
  /\ [](\A i \in TaskIds : C28_NoFrames(i) =>
          /\ pc[i] \in {"loadImage", "failed"}
          /\ worker[i] = "none"
          /\ promise[i].state = "none"
          /\ framePaths[i] = <<>>
          /\ CombinedPath(imageFiles[i]) \notin tempFiles)
  /\ [][\A i \in TaskIds : (C28_NoFrames(i) /\ pc[i] = "loadImage") =>
          /\ pc'[i] \in {"loadImage", "failed"}
          /\ pc'[i] = "failed" =>
               /\ mainPc' = mainPc
               /\ results' = results
               /\ \A j \in Tasks \ {i} : pc'[j] = pc[j]]_vars
  /\ \A i \in TaskIds :
       (C28_NoFrames(i) /\ pc[i] = "loadImage") ~>
         (pc[i] = "failed" /\ AllSettled /\ mainPc \in {"written", "writeFailed"})

\* the first image is a GIF that gave no frame and failed; the second image's
\* palette was extracted after that and the report holds it
C28_Witness ==
  /\ NumTasks = 2
  /\ C28_NoFrames(1)
  /\ pc[1] = "failed"
  /\ pc[2] = "done"
  /\ mainPc = "written"
  /\ Len(report) = 1
  /\ report[1].imageName = imageFiles[2]


\* C29: every entry of results carries as imageName the enumerated file name
\* of its image: for a GIF the name of the GIF, never the name of the combined
\* image that was given to the extraction.
C29_CombinedNames == { CombinedPath(imageFiles[j]) : j \in Tasks }
C29_NamedAfterSource(entries) ==
  \A k \in 1..Len(entries) :
    /\ \E i \in Tasks : pc[i] \in {"cleanup", "done"}
                        /\ entries[k].imageName = imageFiles[i]
    /\ entries[k].imageName \notin C29_CombinedNames
C29_EntryNamedAfterSource ==
  /\ [](C29_NamedAfterSource(results) /\ C29_NamedAfterSource(report))
  /\ [][Len(results') > Len(results) =>
          \E i \in Tasks :
            /\ pc[i] = "extract" /\ pc'[i] \in {"cleanup", "done"}
            /\ Last(results').imageName = imageFiles[i]
            /\ IsGifTask(i) =>
                 /\ processedImagePath[i] = TempPathOf(CombinedPath(imageFiles[i]))
                 /\ Last(results').imageName # processedImagePath[i].file]_vars

\* the report is written and holds an entry named after a GIF whose palette
\* was extracted from its combined image
C29_Witness ==
  /\ mainPc = "written"
  /\ \E i \in Tasks, k \in 1..Len(report) :
       /\ IsGifTask(i)
       /\ processedImagePath[i] = TempPathOf(CombinedPath(imageFiles[i]))
       /\ report[k].imageName = imageFiles[i]

====
